---- MODULE Spec2Model ----
(***************************************************************************)
(* A model of lab.peak.varpeak.VarPeak (src/lab/peak/varpeak.py): a        *)
(* genomic peak that records variants per position together with raw and   *)
(* representative per-genic-region statistics, and its operations          *)
(* gene_based_annotation, put_variant, combine and cut.                    *)
(*                                                                         *)
(* A Python dict is modelled as a TLA+ function whose DOMAIN is the key    *)
(* set; the insertion order of var_pos_to_cnt (the order in which combine  *)
(* iterates it) is kept beside it in var_pos_order.  A gene mapping, which *)
(* is a mutable dict held by reference, is a record [id, val]: id is the   *)
(* identity of the dict object and val its contents.                       *)
(***************************************************************************)
EXTENDS Integers, Sequences, FiniteSets, TLC

VARIABLES peaks, anno_calls, put_calls, last, steps, narrow, narrow_last

vars == <<peaks, anno_calls, put_calls, last, steps, narrow, narrow_last>>

(***************************************************************************)
(* Bounds of the model.                                                    *)
(***************************************************************************)
\* the genome has the coordinates 0 .. MaxEnd - 1
MaxEnd == 2
\* the number of calls made after construction
MaxSteps == 3

\* the caller's variables that hold a peak
Slots == {"p", "q"}

Strands == {"+", "-"}

Min(a, b) == IF a < b THEN a ELSE b

(***************************************************************************)
(* lab.gene.anno: the genic regions and the decoding of an annotation      *)
(* value.  An annotation value is the 6-bit mask documented in             *)
(* NarrowPeak.set_genic_region_size: bit i, counted from the most          *)
(* significant, flags region i; 0 is intergenic.                           *)
(***************************************************************************)
genic_region_list ==
    <<"ORF", "5UTR", "3UTR", "ncRNA_exonic", "intronic", "ncRNA_intronic", "intergenic">>

GenicRegions == {genic_region_list[i] : i \in 1..Len(genic_region_list)}

\* the i-th bit of a 6-bit value, counted from the most significant
Bit(region_val, bit_pos) ==
    LET shift == CASE bit_pos = 1 -> 32 [] bit_pos = 2 -> 16 [] bit_pos = 3 -> 8
                   [] bit_pos = 4 -> 4  [] bit_pos = 5 -> 2  [] OTHER -> 1
    IN  (region_val \div shift) % 2

\* a mapping genic region -> boolean
parse_anno_val(anno_val) ==
    [ORF |-> Bit(anno_val, 1) = 1,
     5UTR |-> Bit(anno_val, 2) = 1,
     3UTR |-> Bit(anno_val, 3) = 1,
     ncRNA_exonic |-> Bit(anno_val, 4) = 1,
     intronic |-> Bit(anno_val, 5) = 1,
     ncRNA_intronic |-> Bit(anno_val, 6) = 1,
     intergenic |-> anno_val = 0]

\* (is multi, representative region): the region of highest priority, but a
\* value that is both 5'UTR and 3'UTR and not ORF is "multi"
get_repr_anno(anno_val) ==
    LET d == parse_anno_val(anno_val)
        first == CHOOSE i \in 1..7 :
                    /\ d[genic_region_list[i]]
                    /\ \A j \in 1..(i - 1) : ~d[genic_region_list[j]]
    IN  IF ~d["ORF"] /\ d["5UTR"] /\ d["3UTR"]
        THEN <<TRUE, "none">>
        ELSE <<FALSE, genic_region_list[first]>>

\* the for-loop over the genic regions: table[r] += n for every flagged region
AddRaw(table, anno_val, n) ==
    LET anno_dict == parse_anno_val(anno_val)
    IN  [r \in GenicRegions |-> IF anno_dict[r] THEN table[r] + n ELSE table[r]]

\* AddRepr with a slip: a multi value is credited to the 5UTR bucket only
AddReprOneBucket(table, anno_val, n) ==
    LET repr == get_repr_anno(anno_val)
    IN  IF repr[1]
        THEN [table EXCEPT !["5UTR"] = @ + n]
        ELSE [table EXCEPT ![repr[2]] = @ + n]

\* the representative rule: both UTR buckets for a multi value, else one bucket
AddRepr(table, anno_val, n) ==
    LET repr == get_repr_anno(anno_val)
    IN  IF repr[1]
        THEN [table EXCEPT !["5UTR"] = @ + n, !["3UTR"] = @ + n]
        ELSE [table EXCEPT ![repr[2]] = @ + n]

(***************************************************************************)
(* Inputs.                                                                 *)
(***************************************************************************)
\* The annotation values used as inputs are 34 (ORF and intronic), 24 (5'UTR and
\* 3'UTR: multi), 32 (ORF) and 0 (intergenic).

\* arguments of the constructor VarPeak(chrom, start, end, strand)
PeakArgs == {<<"chr1", 0, MaxEnd, "+">>, <<"chr1", 0, MaxEnd, "-">>}

\* the annotation of the genome the driver reads annotation vectors from
Genome ==
    [pos \in 0..(MaxEnd - 1) |->
        CASE pos % 3 = 0 -> 34 [] pos % 3 = 1 -> 24 [] OTHER -> 0]

\* the annotation vectors offered to gene_based_annotation on [start, end):
\* the slice of the genome annotation, and a vector that is one element too long
AnnoLists(start, end) ==
    { [i \in 1..(end - start) |-> Genome[start + i - 1]],
      [i \in 1..(end - start + 1) |-> 32] }

\* what a variant says of its position: (annotation value, genes)
VarLabels == {<<34, "GENE1">>, <<24, "GENE1">>, <<34, "GENE2">>}

\* the variants offered to put_variant: every label at every coordinate of the
\* genome, and one variant beyond its end
VariantInputs ==
    {<<pos, label>> : pos \in 0..(MaxEnd - 1), label \in VarLabels}
    \cup {<<MaxEnd, <<34, "GENE1">> >>}

\* the arguments offered to cut on a peak over [start, end): every interval
\* inside it, and one for each way of breaking start <= a < b <= end
CutInputs(start, end) ==
    {<<a, b>> \in (start..end) \X (start..end) : a < b}
    \cup {<<start, start>>, <<end, start>>, <<start, end + 1>>, <<start - 1, end>>}

\* a VCFData object: pos, get_anno_val(strand), get_assoc_genes(strand)
VCFData(pos, anno_val, genes, id) ==
    [pos |-> pos,
     anno_val |-> [s \in Strands |-> anno_val],
     assoc_genes |-> [s \in Strands |-> [id |-> id, val |-> genes]]]

(***************************************************************************)
(* VarPeak.                                                                *)
(***************************************************************************)
ZeroTable == [r \in GenicRegions |-> 0]

\* VarPeak.__init__(chrom, start, end, strand)
VarPeak(chrom, start, end, strand) ==
    [chrom |-> chrom, start |-> start, end |-> end, strand |-> strand,
     var_pos_to_cnt |-> <<>>,
     var_pos_order |-> <<>>,
     var_pos_to_anno_val |-> <<>>,
     var_pos_to_genes |-> <<>>,
     anno_vals |-> <<>>,
     genic_region_to_size |-> ZeroTable,
     genic_region_to_var_cnt |-> ZeroTable,
     repr_genic_region_to_size |-> ZeroTable,
     repr_genic_region_to_var_cnt |-> ZeroTable]

\* NarrowPeak.get_size
get_size(self) == self.end - self.start

\* NarrowPeak.__eq__: the identical interval and strand
PeakEq(self, other) ==
    /\ self.chrom = other.chrom
    /\ self.start = other.start
    /\ self.end = other.end
    /\ self.strand = other.strand

\* d[key] = val on a dict
DictSet(d, key, val) ==
    [k \in (DOMAIN d) \cup {key} |-> IF k = key THEN val ELSE d[k]]

\* the first loop of gene_based_annotation, from element i on
RECURSIVE RawSizeLoop(_, _, _)
RawSizeLoop(table, anno_val_list, i) ==
    IF i > Len(anno_val_list) THEN table
    ELSE RawSizeLoop(AddRaw(table, anno_val_list[i], 1), anno_val_list, i + 1)

\* the second loop with a slip: a multi nucleotide is credited to 5UTR only
RECURSIVE ReprSizeLoopOneBucket(_, _, _)
ReprSizeLoopOneBucket(table, anno_val_list, i) ==
    IF i > Len(anno_val_list) THEN table
    ELSE ReprSizeLoopOneBucket(AddReprOneBucket(table, anno_val_list[i], 1),
                               anno_val_list, i + 1)

\* the second loop of gene_based_annotation, from element i on
RECURSIVE ReprSizeLoop(_, _, _)
ReprSizeLoop(table, anno_val_list, i) ==
    IF i > Len(anno_val_list) THEN table
    ELSE ReprSizeLoop(AddRepr(table, anno_val_list[i], 1), anno_val_list, i + 1)

\* VarPeak.gene_based_annotation: the peak after the call, and whether the
\* call returned (ok) or raised
gene_based_annotation(self, anno_val_list) ==
    IF Len(anno_val_list) # get_size(self)
    THEN [peak |-> self, ok |-> FALSE]
    ELSE [peak |->
            [self EXCEPT
                !.anno_vals = anno_val_list,
                !.genic_region_to_size = RawSizeLoop(@, anno_val_list, 1),
                !.repr_genic_region_to_size = ReprSizeLoop(@, anno_val_list, 1)],
          ok |-> TRUE]

\* put_variant with a slip: the position end itself is accepted
put_variant_end_inclusive(self, variant) ==
    IF ~(self.start <= variant.pos /\ variant.pos <= self.end)
    THEN [peak |-> self, ok |-> FALSE]
    ELSE
      LET var_pos == variant.pos
          \* variant counting
          s1 == IF var_pos \notin DOMAIN self.var_pos_to_cnt
                THEN [self EXCEPT
                        !.var_pos_to_cnt = DictSet(@, var_pos, 1),
                        !.var_pos_order = Append(@, var_pos)]
                ELSE [self EXCEPT !.var_pos_to_cnt[var_pos] = @ + 1]
          \* gene-based annotation of the variant
          anno_ok == \/ var_pos \notin DOMAIN s1.var_pos_to_anno_val
                     \/ s1.var_pos_to_anno_val[var_pos] = variant.anno_val[self.strand]
          s2 == IF var_pos \notin DOMAIN s1.var_pos_to_anno_val
                THEN [s1 EXCEPT !.var_pos_to_anno_val =
                                    DictSet(@, var_pos, variant.anno_val[self.strand])]
                ELSE s1
          \* the variant-associated genes; == on dicts compares the contents
          genes_ok == \/ var_pos \notin DOMAIN s2.var_pos_to_genes
                      \/ s2.var_pos_to_genes[var_pos].val
                            = variant.assoc_genes[self.strand].val
          s3 == IF var_pos \notin DOMAIN s2.var_pos_to_genes
                THEN [s2 EXCEPT !.var_pos_to_genes =
                                    DictSet(@, var_pos, variant.assoc_genes[self.strand])]
                ELSE s2
      IN  IF ~anno_ok THEN [peak |-> s1, ok |-> FALSE]
          ELSE IF ~genes_ok THEN [peak |-> s2, ok |-> FALSE]
          ELSE [peak |->
                  [s3 EXCEPT
                      !.genic_region_to_var_cnt =
                          AddRaw(@, s3.var_pos_to_anno_val[var_pos], 1),
                      !.repr_genic_region_to_var_cnt =
                          AddRepr(@, s3.var_pos_to_anno_val[var_pos], 1)],
                ok |-> TRUE]

\* put_variant with a slip: a call that raises on the labels has counted nothing
put_variant_check_first(self, variant) ==
    IF ~(self.start <= variant.pos /\ variant.pos < self.end)
    THEN [peak |-> self, ok |-> FALSE]
    ELSE
      LET var_pos == variant.pos
          \* variant counting
          s1 == IF var_pos \notin DOMAIN self.var_pos_to_cnt
                THEN [self EXCEPT
                        !.var_pos_to_cnt = DictSet(@, var_pos, 1),
                        !.var_pos_order = Append(@, var_pos)]
                ELSE [self EXCEPT !.var_pos_to_cnt[var_pos] = @ + 1]
          \* gene-based annotation of the variant
          anno_ok == \/ var_pos \notin DOMAIN s1.var_pos_to_anno_val
                     \/ s1.var_pos_to_anno_val[var_pos] = variant.anno_val[self.strand]
          s2 == IF var_pos \notin DOMAIN s1.var_pos_to_anno_val
                THEN [s1 EXCEPT !.var_pos_to_anno_val =
                                    DictSet(@, var_pos, variant.anno_val[self.strand])]
                ELSE s1
          \* the variant-associated genes; == on dicts compares the contents
          genes_ok == \/ var_pos \notin DOMAIN s2.var_pos_to_genes
                      \/ s2.var_pos_to_genes[var_pos].val
                            = variant.assoc_genes[self.strand].val
          s3 == IF var_pos \notin DOMAIN s2.var_pos_to_genes
                THEN [s2 EXCEPT !.var_pos_to_genes =
                                    DictSet(@, var_pos, variant.assoc_genes[self.strand])]
                ELSE s2
      IN  IF ~anno_ok THEN [peak |-> self, ok |-> FALSE]
          ELSE IF ~genes_ok THEN [peak |-> self, ok |-> FALSE]
          ELSE [peak |->
                  [s3 EXCEPT
                      !.genic_region_to_var_cnt =
                          AddRaw(@, s3.var_pos_to_anno_val[var_pos], 1),
                      !.repr_genic_region_to_var_cnt =
                          AddRepr(@, s3.var_pos_to_anno_val[var_pos], 1)],
                ok |-> TRUE]

\* put_variant with a slip: a position seen again has its count set to 1
put_variant_count_once(self, variant) ==
    IF ~(self.start <= variant.pos /\ variant.pos < self.end)
    THEN [peak |-> self, ok |-> FALSE]
    ELSE
      LET var_pos == variant.pos
          \* variant counting
          s1 == IF var_pos \notin DOMAIN self.var_pos_to_cnt
                THEN [self EXCEPT
                        !.var_pos_to_cnt = DictSet(@, var_pos, 1),
                        !.var_pos_order = Append(@, var_pos)]
                ELSE [self EXCEPT !.var_pos_to_cnt[var_pos] = 1]
          \* gene-based annotation of the variant
          anno_ok == \/ var_pos \notin DOMAIN s1.var_pos_to_anno_val
                     \/ s1.var_pos_to_anno_val[var_pos] = variant.anno_val[self.strand]
          s2 == IF var_pos \notin DOMAIN s1.var_pos_to_anno_val
                THEN [s1 EXCEPT !.var_pos_to_anno_val =
                                    DictSet(@, var_pos, variant.anno_val[self.strand])]
                ELSE s1
          \* the variant-associated genes; == on dicts compares the contents
          genes_ok == \/ var_pos \notin DOMAIN s2.var_pos_to_genes
                      \/ s2.var_pos_to_genes[var_pos].val
                            = variant.assoc_genes[self.strand].val
          s3 == IF var_pos \notin DOMAIN s2.var_pos_to_genes
                THEN [s2 EXCEPT !.var_pos_to_genes =
                                    DictSet(@, var_pos, variant.assoc_genes[self.strand])]
                ELSE s2
      IN  IF ~anno_ok THEN [peak |-> s1, ok |-> FALSE]
          ELSE IF ~genes_ok THEN [peak |-> s2, ok |-> FALSE]
          ELSE [peak |->
                  [s3 EXCEPT
                      !.genic_region_to_var_cnt =
                          AddRaw(@, s3.var_pos_to_anno_val[var_pos], 1),
                      !.repr_genic_region_to_var_cnt =
                          AddRepr(@, s3.var_pos_to_anno_val[var_pos], 1)],
                ok |-> TRUE]

\* VarPeak.put_variant
put_variant(self, variant) ==
    IF ~(self.start <= variant.pos /\ variant.pos < self.end)
    THEN [peak |-> self, ok |-> FALSE]
    ELSE
      LET var_pos == variant.pos
          \* variant counting
          s1 == IF var_pos \notin DOMAIN self.var_pos_to_cnt
                THEN [self EXCEPT
                        !.var_pos_to_cnt = DictSet(@, var_pos, 1),
                        !.var_pos_order = Append(@, var_pos)]
                ELSE [self EXCEPT !.var_pos_to_cnt[var_pos] = @ + 1]
          \* gene-based annotation of the variant
          anno_ok == \/ var_pos \notin DOMAIN s1.var_pos_to_anno_val
                     \/ s1.var_pos_to_anno_val[var_pos] = variant.anno_val[self.strand]
          s2 == IF var_pos \notin DOMAIN s1.var_pos_to_anno_val
                THEN [s1 EXCEPT !.var_pos_to_anno_val =
                                    DictSet(@, var_pos, variant.anno_val[self.strand])]
                ELSE s1
          \* the variant-associated genes; == on dicts compares the contents
          genes_ok == \/ var_pos \notin DOMAIN s2.var_pos_to_genes
                      \/ s2.var_pos_to_genes[var_pos].val
                            = variant.assoc_genes[self.strand].val
          s3 == IF var_pos \notin DOMAIN s2.var_pos_to_genes
                THEN [s2 EXCEPT !.var_pos_to_genes =
                                    DictSet(@, var_pos, variant.assoc_genes[self.strand])]
                ELSE s2
      IN  IF ~anno_ok THEN [peak |-> s1, ok |-> FALSE]
          ELSE IF ~genes_ok THEN [peak |-> s2, ok |-> FALSE]
          ELSE [peak |->
                  [s3 EXCEPT
                      !.genic_region_to_var_cnt =
                          AddRaw(@, s3.var_pos_to_anno_val[var_pos], 1),
                      !.repr_genic_region_to_var_cnt =
                          AddRepr(@, s3.var_pos_to_anno_val[var_pos], 1)],
                ok |-> TRUE]

\* the loop of combine with a slip: the region tables are left alone for a
\* position self already has
RECURSIVE CombineLoopSkipKnown(_, _, _, _, _)
CombineLoopSkipKnown(self, other, same, keys, i) ==
    IF i > Len(keys) THEN [peak |-> self, ok |-> TRUE]
    ELSE
      LET o == IF same THEN self ELSE other
          var_pos == keys[i]
          var_cnt == o.var_pos_to_cnt[var_pos]
          anno_val == o.var_pos_to_anno_val[var_pos]
          genes == o.var_pos_to_genes[var_pos]
          absent == var_pos \notin DOMAIN self.var_pos_to_cnt
          labels_ok == /\ self.var_pos_to_anno_val[var_pos] = anno_val
                       /\ self.var_pos_to_genes[var_pos].val = genes.val
          s1 == IF absent
                THEN [self EXCEPT
                        !.var_pos_to_anno_val = DictSet(@, var_pos, anno_val),
                        !.var_pos_to_genes = DictSet(@, var_pos, genes),
                        !.var_pos_to_cnt = DictSet(@, var_pos, var_cnt),
                        !.var_pos_order = Append(@, var_pos)]
                ELSE [self EXCEPT !.var_pos_to_cnt[var_pos] = @ + var_cnt]
          s2 == [s1 EXCEPT
                    !.genic_region_to_var_cnt = AddRaw(@, anno_val, var_cnt),
                    !.repr_genic_region_to_var_cnt = AddRepr(@, anno_val, var_cnt)]
      IN  IF ~absent /\ ~labels_ok THEN [peak |-> self, ok |-> FALSE]
          ELSE CombineLoopSkipKnown(IF absent THEN s2 ELSE s1, other, same, keys, i + 1)

\* the loop of combine with a slip: a position self already has gains 1, not
\* other's count
RECURSIVE CombineLoopByOne(_, _, _, _, _)
CombineLoopByOne(self, other, same, keys, i) ==
    IF i > Len(keys) THEN [peak |-> self, ok |-> TRUE]
    ELSE
      LET o == IF same THEN self ELSE other
          var_pos == keys[i]
          var_cnt == o.var_pos_to_cnt[var_pos]
          anno_val == o.var_pos_to_anno_val[var_pos]
          genes == o.var_pos_to_genes[var_pos]
          absent == var_pos \notin DOMAIN self.var_pos_to_cnt
          labels_ok == /\ self.var_pos_to_anno_val[var_pos] = anno_val
                       /\ self.var_pos_to_genes[var_pos].val = genes.val
          s1 == IF absent
                THEN [self EXCEPT
                        !.var_pos_to_anno_val = DictSet(@, var_pos, anno_val),
                        !.var_pos_to_genes = DictSet(@, var_pos, genes),
                        !.var_pos_to_cnt = DictSet(@, var_pos, var_cnt),
                        !.var_pos_order = Append(@, var_pos)]
                ELSE [self EXCEPT !.var_pos_to_cnt[var_pos] = @ + 1]
          s2 == [s1 EXCEPT
                    !.genic_region_to_var_cnt = AddRaw(@, anno_val, var_cnt),
                    !.repr_genic_region_to_var_cnt = AddRepr(@, anno_val, var_cnt)]
      IN  IF ~absent /\ ~labels_ok THEN [peak |-> self, ok |-> FALSE]
          ELSE CombineLoopByOne(s2, other, same, keys, i + 1)

\* the body of the loop of combine for the i-th key of other.var_pos_to_cnt and
\* the rest of the loop; other is self itself when same holds, and is then
\* read as it is at that point of the loop
RECURSIVE CombineLoop(_, _, _, _, _)
CombineLoop(self, other, same, keys, i) ==
    IF i > Len(keys) THEN [peak |-> self, ok |-> TRUE]
    ELSE
      LET o == IF same THEN self ELSE other
          var_pos == keys[i]
          var_cnt == o.var_pos_to_cnt[var_pos]
          anno_val == o.var_pos_to_anno_val[var_pos]
          genes == o.var_pos_to_genes[var_pos]
          absent == var_pos \notin DOMAIN self.var_pos_to_cnt
          labels_ok == /\ self.var_pos_to_anno_val[var_pos] = anno_val
                       /\ self.var_pos_to_genes[var_pos].val = genes.val
          s1 == IF absent
                THEN [self EXCEPT
                        !.var_pos_to_anno_val = DictSet(@, var_pos, anno_val),
                        !.var_pos_to_genes = DictSet(@, var_pos, genes),
                        !.var_pos_to_cnt = DictSet(@, var_pos, var_cnt),
                        !.var_pos_order = Append(@, var_pos)]
                ELSE [self EXCEPT !.var_pos_to_cnt[var_pos] = @ + var_cnt]
          s2 == [s1 EXCEPT
                    !.genic_region_to_var_cnt = AddRaw(@, anno_val, var_cnt),
                    !.repr_genic_region_to_var_cnt = AddRepr(@, anno_val, var_cnt)]
      IN  IF ~absent /\ ~labels_ok THEN [peak |-> self, ok |-> FALSE]
          ELSE CombineLoop(s2, other, same, keys, i + 1)

\* combine with a slip: peaks that merely overlap on the same strand are accepted
combine_overlap(self, other, same) ==
    IF ~(/\ self.chrom = other.chrom /\ self.strand = other.strand
         /\ other.start < self.end /\ self.start < other.end)
    THEN [peak |-> self, ok |-> FALSE]
    ELSE CombineLoop(self, other, same, other.var_pos_order, 1)

\* VarPeak.combine; same tells that other is the object self
combine(self, other, same) ==
    IF ~PeakEq(other, self) THEN [peak |-> self, ok |-> FALSE]
    ELSE CombineLoop(self, other, same, other.var_pos_order, 1)

\* sorted(list): the elements of the set keys in increasing order
RECURSIVE SortedSeq(_)
SortedSeq(keys) ==
    IF keys = {} THEN <<>>
    ELSE LET m == CHOOSE x \in keys : \A y \in keys : x <= y
         IN  <<m>> \o SortedSeq(keys \ {m})

\* get_var_pos_list with a slip: the keys in insertion order, not sorted
get_var_pos_list_unsorted(self) == self.var_pos_order

\* VarPeak.get_var_pos_list
get_var_pos_list(self) == SortedSeq(DOMAIN self.var_pos_to_cnt)

\* the loop of get_var_cnt over the keys of var_pos_to_cnt, from the i-th on
RECURSIVE VarCntLoop(_, _, _)
VarCntLoop(self, keys, i) ==
    IF i > Len(keys) THEN 0
    ELSE self.var_pos_to_cnt[keys[i]] + VarCntLoop(self, keys, i + 1)

\* VarPeak.get_var_cnt
get_var_cnt(self) == VarCntLoop(self, self.var_pos_order, 1)

\* the loop of cut with a slip: a position equal to end is taken as inside
RECURSIVE CutLoopEndInclusive(_, _, _, _, _, _)
CutLoopEndInclusive(self, cut_peak, start, end, var_pos_list, i) ==
    IF i > Len(var_pos_list) THEN cut_peak
    ELSE
      LET var_pos == var_pos_list[i]
          var_cnt == self.var_pos_to_cnt[var_pos]
          var_anno_val == self.var_pos_to_anno_val[var_pos]
          assoc_genes == self.var_pos_to_genes[var_pos]
      IN  IF start <= var_pos /\ var_pos <= end
          THEN CutLoopEndInclusive(self,
                  [cut_peak EXCEPT
                      !.var_pos_to_cnt = DictSet(@, var_pos, var_cnt),
                      !.var_pos_order = Append(@, var_pos),
                      !.var_pos_to_anno_val = DictSet(@, var_pos, var_anno_val),
                      !.var_pos_to_genes = DictSet(@, var_pos, assoc_genes),
                      !.genic_region_to_var_cnt = AddRaw(@, var_anno_val, var_cnt),
                      !.repr_genic_region_to_var_cnt = AddRepr(@, var_anno_val, var_cnt)],
                  start, end, var_pos_list, i + 1)
          ELSE IF var_pos >= end THEN cut_peak
          ELSE CutLoopEndInclusive(self, cut_peak, start, end, var_pos_list, i + 1)

\* the loop of cut with a slip: the region tables gain 1 for a position, not
\* its count
RECURSIVE CutLoopByOne(_, _, _, _, _, _)
CutLoopByOne(self, cut_peak, start, end, var_pos_list, i) ==
    IF i > Len(var_pos_list) THEN cut_peak
    ELSE
      LET var_pos == var_pos_list[i]
          var_cnt == self.var_pos_to_cnt[var_pos]
          var_anno_val == self.var_pos_to_anno_val[var_pos]
          assoc_genes == self.var_pos_to_genes[var_pos]
      IN  IF start <= var_pos /\ var_pos < end
          THEN CutLoopByOne(self,
                  [cut_peak EXCEPT
                      !.var_pos_to_cnt = DictSet(@, var_pos, var_cnt),
                      !.var_pos_order = Append(@, var_pos),
                      !.var_pos_to_anno_val = DictSet(@, var_pos, var_anno_val),
                      !.var_pos_to_genes = DictSet(@, var_pos, assoc_genes),
                      !.genic_region_to_var_cnt = AddRaw(@, var_anno_val, 1),
                      !.repr_genic_region_to_var_cnt = AddRepr(@, var_anno_val, 1)],
                  start, end, var_pos_list, i + 1)
          ELSE IF var_pos >= end THEN cut_peak
          ELSE CutLoopByOne(self, cut_peak, start, end, var_pos_list, i + 1)

\* the loop of cut over var_pos_list from its i-th element on, with its break
RECURSIVE CutLoop(_, _, _, _, _, _)
CutLoop(self, cut_peak, start, end, var_pos_list, i) ==
    IF i > Len(var_pos_list) THEN cut_peak
    ELSE
      LET var_pos == var_pos_list[i]
          var_cnt == self.var_pos_to_cnt[var_pos]
          var_anno_val == self.var_pos_to_anno_val[var_pos]
          assoc_genes == self.var_pos_to_genes[var_pos]
      IN  IF start <= var_pos /\ var_pos < end
          THEN CutLoop(self,
                  [cut_peak EXCEPT
                      !.var_pos_to_cnt = DictSet(@, var_pos, var_cnt),
                      !.var_pos_order = Append(@, var_pos),
                      !.var_pos_to_anno_val = DictSet(@, var_pos, var_anno_val),
                      !.var_pos_to_genes = DictSet(@, var_pos, assoc_genes),
                      !.genic_region_to_var_cnt = AddRaw(@, var_anno_val, var_cnt),
                      !.repr_genic_region_to_var_cnt = AddRepr(@, var_anno_val, var_cnt)],
                  start, end, var_pos_list, i + 1)
          ELSE IF var_pos >= end THEN cut_peak
          ELSE CutLoop(self, cut_peak, start, end, var_pos_list, i + 1)

\* list[lo:hi] for 0 <= lo <= hi
Slice(list, lo, hi) == SubSeq(list, Min(lo, Len(list)) + 1, Min(hi, Len(list)))

\* cut with a slip: start <= end is asserted instead of start <= end
cut_allow_empty(self, start, end) ==
    IF ~(self.start <= start /\ start <= end /\ end <= self.end)
    THEN [peak |-> self, ok |-> FALSE]
    ELSE
      LET rel_start == start - self.start
          rel_end == end - self.start
          cut_anno_vals == Slice(self.anno_vals, rel_start, rel_end)
          annotated == gene_based_annotation(
                          VarPeak(self.chrom, start, end, self.strand), cut_anno_vals)
      IN  IF ~annotated.ok THEN [peak |-> self, ok |-> FALSE]
          ELSE [peak |-> CutLoop(self, annotated.peak, start, end,
                                 get_var_pos_list(self), 1),
                ok |-> TRUE]

\* VarPeak.cut: the peak returned, and whether the call returned or raised
cut(self, start, end) ==
    IF ~(self.start <= start /\ start < end /\ end <= self.end)
    THEN [peak |-> self, ok |-> FALSE]
    ELSE
      LET rel_start == start - self.start
          rel_end == end - self.start
          cut_anno_vals == Slice(self.anno_vals, rel_start, rel_end)
          annotated == gene_based_annotation(
                          VarPeak(self.chrom, start, end, self.strand), cut_anno_vals)
      IN  IF ~annotated.ok THEN [peak |-> self, ok |-> FALSE]
          ELSE [peak |-> CutLoop(self, annotated.peak, start, end,
                                 get_var_pos_list(self), 1),
                ok |-> TRUE]

(***************************************************************************)
(* NarrowPeak of src/peak/narrow_peak.py, the older base peak: a BED entry *)
(* with the per-region sizes set_genic_region_size builds and the variants *)
(* put_variant records.  The display fields of the entry (name, score,     *)
(* sig_val, p_val, q_val, point_src) take no part in either.               *)
(***************************************************************************)
\* the largest annotation code drawn for set_genic_region_size
MaxRegionVal == 65

\* the longest code list drawn for set_genic_region_size
MaxListLen == 2

\* the fields of the BED entries parsed, numbers as their decimal digits
PeakEntries ==
    {<<"chr1", <<0>>, <<2>>, "+">>,
     <<"chr1", <<1>>, <<3>>, "-">>,
     <<"chr1", <<9>>, <<1, 1>>, "+">>}

\* the code lists of length n handed to set_genic_region_size
RegionValLists(n) == [1..n -> 0..MaxRegionVal]

\* the genic regions a variant of the older VCFData names
VarGenicRegions == {"ORF", "intronic"}

\* the older VCFData: pos (1-based) and get_var_genic_region()
NarrowVCFData(pos, region) == [pos |-> pos, var_genic_region |-> region]

\* int() of a string of decimal digits
RECURSIVE int(_)
int(digits) ==
    IF Len(digits) = 0 THEN 0
    ELSE 10 * int(SubSeq(digits, 1, Len(digits) - 1)) + digits[Len(digits)]

\* NarrowPeak.__init__
NarrowPeak ==
    [chrom |-> "", start |-> 0, end |-> 0, strand |-> ".",
     genic_region_to_size |-> <<>>,
     var_pos_to_cnt |-> <<>>,
     var_pos_to_genic_region |-> <<>>]

\* NarrowPeak.parse_peak_entry on the fields of the entry
parse_peak_entry(self, fields) ==
    [self EXCEPT !.chrom = fields[1],
                 !.start = int(fields[2]),
                 !.end = int(fields[3]),
                 !.strand = fields[4]]

\* bit_pos_to_region of set_genic_region_size: its genic_region_list by place
bit_pos_to_region ==
    [i \in 1..7 |->
        CASE i = 1 -> "ORF" [] i = 2 -> "5UTR" [] i = 3 -> "3UTR"
          [] i = 4 -> "ncRNA_exonic" [] i = 5 -> "intronic"
          [] i = 6 -> "ncRNA_intronic" [] OTHER -> "intergenic"]

\* the loop over bit_pos of set_genic_region_size, from bit_pos on
RECURSIVE BitPosLoop(_, _, _)
BitPosLoop(table, region_val, bit_pos) ==
    IF bit_pos > 6 THEN table
    ELSE BitPosLoop(IF Bit(region_val, bit_pos) = 1
                    THEN [table EXCEPT ![bit_pos_to_region[bit_pos]] = @ + 1]
                    ELSE table,
                    region_val, bit_pos + 1)

\* the loop over the codes with a slip: the code 64 passes the assertion
RECURSIVE RegionValLoopAllow64(_, _, _)
RegionValLoopAllow64(self, genic_region_val_list, i) ==
    IF i > Len(genic_region_val_list) THEN [peak |-> self, ok |-> TRUE]
    ELSE
      LET region_val == genic_region_val_list[i]
      IN  IF ~(region_val <= 64) THEN [peak |-> self, ok |-> FALSE]
          ELSE RegionValLoopAllow64(
                  [self EXCEPT !.genic_region_to_size =
                      IF region_val = 0 THEN [@ EXCEPT !["intergenic"] = @ + 1]
                      ELSE BitPosLoop(@, region_val, 1)],
                  genic_region_val_list, i + 1)

\* the loop over the codes of set_genic_region_size, from the i-th on; the
\* assertion raises in the middle of the list, the earlier codes counted
RECURSIVE RegionValLoop(_, _, _)
RegionValLoop(self, genic_region_val_list, i) ==
    IF i > Len(genic_region_val_list) THEN [peak |-> self, ok |-> TRUE]
    ELSE
      LET region_val == genic_region_val_list[i]
      IN  IF ~(region_val < 64) THEN [peak |-> self, ok |-> FALSE]
          ELSE RegionValLoop(
                  [self EXCEPT !.genic_region_to_size =
                      IF region_val = 0 THEN [@ EXCEPT !["intergenic"] = @ + 1]
                      ELSE BitPosLoop(@, region_val, 1)],
                  genic_region_val_list, i + 1)

\* NarrowPeak.set_genic_region_size
set_genic_region_size(self, genic_region_val_list) ==
    RegionValLoop(
        [self EXCEPT !.genic_region_to_size =
            [genic_region \in {bit_pos_to_region[i] : i \in 1..7} |-> 0]],
        genic_region_val_list, 1)

\* NarrowPeak.put_variant with a slip: the 1-based position is the key
NarrowPeak_put_variant_one_based(self, variant) ==
    IF ~(self.start <= variant.pos /\ variant.pos < self.end)
    THEN [peak |-> self, ok |-> FALSE]
    ELSE
      LET var_pos == variant.pos
          s1 == IF var_pos \notin DOMAIN self.var_pos_to_cnt
                THEN [self EXCEPT !.var_pos_to_cnt = DictSet(@, var_pos, 0)]
                ELSE self
          s2 == [s1 EXCEPT !.var_pos_to_cnt[var_pos] = @ + 1]
      IN  IF var_pos \notin DOMAIN s2.var_pos_to_genic_region
          THEN [peak |-> [s2 EXCEPT !.var_pos_to_genic_region =
                                  DictSet(@, var_pos, variant.var_genic_region)],
                ok |-> TRUE]
          ELSE [peak |-> s2,
                ok |-> s2.var_pos_to_genic_region[var_pos] = variant.var_genic_region]

\* NarrowPeak.put_variant: the count is raised before the region is compared
NarrowPeak_put_variant(self, variant) ==
    IF ~(self.start <= variant.pos - 1 /\ variant.pos - 1 < self.end)
    THEN [peak |-> self, ok |-> FALSE]
    ELSE
      LET var_pos == variant.pos - 1
          s1 == IF var_pos \notin DOMAIN self.var_pos_to_cnt
                THEN [self EXCEPT !.var_pos_to_cnt = DictSet(@, var_pos, 0)]
                ELSE self
          s2 == [s1 EXCEPT !.var_pos_to_cnt[var_pos] = @ + 1]
      IN  IF var_pos \notin DOMAIN s2.var_pos_to_genic_region
          THEN [peak |-> [s2 EXCEPT !.var_pos_to_genic_region =
                                  DictSet(@, var_pos, variant.var_genic_region)],
                ok |-> TRUE]
          ELSE [peak |-> s2,
                ok |-> s2.var_pos_to_genic_region[var_pos] = variant.var_genic_region]

\* a call on the NarrowPeak: its name, arguments and outcome
NarrowCall(op, pos, region, list, ok) ==
    [op |-> op, pos |-> pos, region |-> region, list |-> list, ok |-> ok]

(***************************************************************************)
(* The state: the peaks the caller holds, and the history of the calls.    *)
(*   peaks       the VarPeak object held in each of the caller's variables *)
(*   anno_calls  how many gene_based_annotation calls each peak accepted   *)
(*   last        the last call: its name, arguments and outcome            *)
(*   steps       the number of calls made                                  *)
(* A call that raises ends the run: the AssertionError is not caught, so   *)
(* every state is the result of successful calls, but for the state a last *)
(* call that raised has left behind.                                       *)
(*   put_calls   the number of successful put_variant calls on each peak   *)
(*               while put_variant alone has populated it, and -1 once     *)
(*               combine has added to it, a combine that raised midway     *)
(*               included, or cut has built it                             *)
(*   narrow      a peak of the older class NarrowPeak                      *)
(*   narrow_last the last call on narrow; the driver of VarPeak leaves     *)
(*               both alone                                                *)
(***************************************************************************)
Call(op, self, other, a, b, ok) ==
    [op |-> op, self |-> self, other |-> other, a |-> a, b |-> b, ok |-> ok]

\* the identities of the gene mappings a peak holds
GeneIds(peak) == {peak.var_pos_to_genes[k].id : k \in DOMAIN peak.var_pos_to_genes}

\* the identity of a newly created gene mapping: the least one no peak holds
FreshId ==
    LET used == UNION {GeneIds(peaks[s]) : s \in Slots}
    IN  CHOOSE i \in 1..(Cardinality(used) + 1) :
            i \notin used /\ \A j \in 1..(i - 1) : j \in used

\* The state after the driver has constructed its two peaks: p over the whole
\* genome on the + strand, annotated by its one gene_based_annotation call, and
\* q, a new peak over the same interval on either strand.
Init ==
    /\ \E args \in PeakArgs :
          peaks = [s \in Slots |->
                      IF s = "p"
                      THEN gene_based_annotation(
                              VarPeak("chr1", 0, MaxEnd, "+"),
                              [i \in 1..MaxEnd |-> Genome[i - 1]]).peak
                      ELSE VarPeak(args[1], args[2], args[3], args[4])]
    /\ anno_calls = [s \in Slots |-> IF s = "p" THEN 1 ELSE 0]
    /\ put_calls = [s \in Slots |-> 0]
    /\ last = Call("init", "p", "p", 0, 0, TRUE)
    /\ steps = 0
    /\ narrow = NarrowPeak
    /\ narrow_last = NarrowCall("init", 0, "", <<>>, TRUE)

\* a call can be made: no call has raised, and the budget of calls is not spent
CanCall == last.ok /\ steps < MaxSteps

\* peaks[s].gene_based_annotation(anno_val_list)
GeneBasedAnnotation(s) ==
    \E anno_val_list \in AnnoLists(peaks[s].start, peaks[s].end) :
        LET r == gene_based_annotation(peaks[s], anno_val_list)
        IN  /\ CanCall
            /\ peaks' = [peaks EXCEPT ![s] = r.peak]
            /\ anno_calls' = [anno_calls EXCEPT ![s] = IF r.ok THEN @ + 1 ELSE @]
            /\ last' = Call("gene_based_annotation", s, s, Len(anno_val_list), 0, r.ok)
            /\ steps' = steps + 1
            /\ UNCHANGED <<put_calls, narrow, narrow_last>>

\* peaks[s].put_variant(variant), for a variant with a gene mapping of its own
PutVariant(s) ==
    \E input \in VariantInputs :
        LET pos == input[1]
            label == input[2]
            r == put_variant(peaks[s], VCFData(pos, label[1], label[2], FreshId))
        IN  /\ CanCall
            /\ peaks' = [peaks EXCEPT ![s] = r.peak]
            /\ put_calls' = IF r.ok /\ put_calls[s] >= 0
                            THEN [put_calls EXCEPT ![s] = @ + 1]
                            ELSE put_calls
            /\ last' = Call("put_variant", s, s, pos, label, r.ok)
            /\ steps' = steps + 1
            /\ UNCHANGED <<anno_calls, narrow, narrow_last>>

\* peaks[s].combine(peaks[o]); o may be s
Combine(s) ==
    \E o \in Slots :
        LET r == combine(peaks[s], peaks[o], o = s)
        IN  /\ CanCall
            /\ peaks' = [peaks EXCEPT ![s] = r.peak]
            /\ put_calls' = IF r.ok \/ r.peak # peaks[s]
                            THEN [put_calls EXCEPT ![s] = -1]
                            ELSE put_calls
            /\ last' = Call("combine", s, o, 0, 0, r.ok)
            /\ steps' = steps + 1
            /\ UNCHANGED <<anno_calls, narrow, narrow_last>>

\* cut with a slip: the source peak is trimmed in place as well
CutInPlace(s) ==
    \E res \in Slots \ {s}, input \in CutInputs(peaks[s].start, peaks[s].end) :
        LET start == input[1]
            end == input[2]
            r == cut(peaks[s], start, end)
        IN  /\ CanCall
            /\ peaks' = IF r.ok THEN [peaks EXCEPT ![res] = r.peak, ![s] = r.peak]
                        ELSE peaks
            /\ anno_calls' = IF r.ok THEN [anno_calls EXCEPT ![res] = 1] ELSE anno_calls
            /\ put_calls' = IF r.ok THEN [put_calls EXCEPT ![res] = -1] ELSE put_calls
            /\ last' = Call("cut", s, res, start, end, r.ok)
            /\ steps' = steps + 1
            /\ UNCHANGED <<narrow, narrow_last>>

\* peaks[res] = peaks[s].cut(start, end); when the call raises, the variable
\* res keeps its peak
Cut(s) ==
    \E res \in Slots \ {s}, input \in CutInputs(peaks[s].start, peaks[s].end) :
        LET start == input[1]
            end == input[2]
            r == cut(peaks[s], start, end)
        IN  /\ CanCall
            /\ peaks' = IF r.ok THEN [peaks EXCEPT ![res] = r.peak] ELSE peaks
            /\ anno_calls' = IF r.ok THEN [anno_calls EXCEPT ![res] = 1] ELSE anno_calls
            /\ put_calls' = IF r.ok THEN [put_calls EXCEPT ![res] = -1] ELSE put_calls
            /\ last' = Call("cut", s, res, start, end, r.ok)
            /\ steps' = steps + 1
            /\ UNCHANGED <<narrow, narrow_last>>

Next ==
    \E s \in Slots :
        \/ GeneBasedAnnotation(s)
        \/ PutVariant(s)
        \/ Combine(s)
        \/ Cut(s)

Spec == Init /\ [][Next]_vars

(***************************************************************************)
(* The drivers of the NarrowPeak: one that sets the region sizes of a      *)
(* parsed peak, one that records variants on a parsed peak.  Neither holds *)
(* a VarPeak of its own making: its variables stay as constructed.         *)
(***************************************************************************)
\* the variables of the VarPeak driver, at rest
VarPeaksIdle ==
    /\ peaks = [s \in Slots |-> VarPeak("chr1", 0, MaxEnd, "+")]
    /\ anno_calls = [s \in Slots |-> 0]
    /\ put_calls = [s \in Slots |-> 0]
    /\ last = Call("init", "p", "p", 0, 0, TRUE)

\* a peak parsed from the first BED entry; no call made yet
InitSize ==
    /\ VarPeaksIdle
    /\ steps = 0
    /\ narrow = parse_peak_entry(NarrowPeak, <<"chr1", <<0>>, <<2>>, "+">>)
    /\ narrow_last = NarrowCall("init", 0, "", <<>>, TRUE)

\* narrow.set_genic_region_size(genic_region_val_list), the one call the
\* driver makes on the parsed peak
SetGenicRegionSize ==
    /\ narrow_last.op = "init"
    /\ \E n \in 0..MaxListLen : \E genic_region_val_list \in RegionValLists(n) :
          LET r == set_genic_region_size(narrow, genic_region_val_list)
          IN  /\ narrow' = r.peak
              /\ narrow_last' = NarrowCall("set_genic_region_size", 0, "",
                                           genic_region_val_list, r.ok)
              /\ UNCHANGED <<peaks, anno_calls, put_calls, last, steps>>

SpecSize == InitSize /\ [][SetGenicRegionSize]_vars

\* a peak parsed from any of the BED entries; no call made yet
InitRecord ==
    /\ VarPeaksIdle
    /\ steps = 0
    /\ \E fields \in PeakEntries : narrow = parse_peak_entry(NarrowPeak, fields)
    /\ narrow_last = NarrowCall("init", 0, "", <<>>, TRUE)

\* narrow.put_variant(variant) for a variant at, before or past the peak; a
\* call that raises ends the run
NarrowPutVariant ==
    \E pos \in narrow.start..(narrow.end + 1), region \in VarGenicRegions :
        LET r == NarrowPeak_put_variant(narrow, NarrowVCFData(pos, region))
        IN  /\ narrow_last.ok /\ steps < MaxSteps
            /\ narrow' = r.peak
            /\ narrow_last' = NarrowCall("put_variant", pos, region, <<>>, r.ok)
            /\ steps' = steps + 1
            /\ UNCHANGED <<peaks, anno_calls, put_calls, last>>

SpecRecord == InitRecord /\ [][NarrowPutVariant]_vars

(***************************************************************************)
(* Properties.                                                             *)
(***************************************************************************)
\* the sum, region by region, of the tables f[k] over the keys k of the set keys
RECURSIVE SumOver(_, _)
SumOver(f, keys) ==
    IF keys = {} THEN [r \in GenicRegions |-> 0]
    ELSE LET k == CHOOSE x \in keys : TRUE
             rest == SumOver(f, keys \ {k})
         IN  [r \in GenicRegions |-> f[k][r] + rest[r]]

\* the recorded positions of a peak
Positions(peak) == DOMAIN peak.var_pos_to_cnt

\* the count a peak records at a position, 0 when it records none
CntAt(peak, pos) ==
    IF pos \in Positions(peak) THEN peak.var_pos_to_cnt[pos] ELSE 0

\* whether the representative rule credits an annotation value to region r
ReprCredits(anno_val, r) ==
    LET repr == get_repr_anno(anno_val)
    IN  IF repr[1] THEN r \in {"5UTR", "3UTR"} ELSE r = repr[2]

\* the raw variant counts by a re-scan of the per-position maps: a position
\* gives its count to every region its annotation value flags
RescanRaw(peak) ==
    SumOver([pos \in Positions(peak) |->
                LET anno_dict == parse_anno_val(peak.var_pos_to_anno_val[pos])
                IN  [r \in GenicRegions |->
                        IF anno_dict[r] THEN peak.var_pos_to_cnt[pos] ELSE 0]],
            Positions(peak))

\* the representative variant counts by a re-scan of the per-position maps: a
\* multi position gives its count to 5UTR and 3UTR, any other position to its
\* representative region
RescanRepr(peak) ==
    SumOver([pos \in Positions(peak) |->
                LET repr == get_repr_anno(peak.var_pos_to_anno_val[pos])
                IN  [r \in GenicRegions |->
                        IF (IF repr[1] THEN r \in {"5UTR", "3UTR"} ELSE r = repr[2])
                        THEN peak.var_pos_to_cnt[pos] ELSE 0]],
            Positions(peak))

\* the contents of the gene mappings of a peak, whatever objects hold them
GenesByValue(peak) ==
    [pos \in DOMAIN peak.var_pos_to_genes |-> peak.var_pos_to_genes[pos].val]

\* the peaks no call that raised has left partly updated
Sound(s) == last.ok \/ s # last.self

\* C1: Every peak that successful put_variant and combine calls have built,
\* and every peak cut returns, has variant-count tables equal to a re-scan of
\* its per-position maps: genic_region_to_var_cnt[r] is the sum of the counts
\* of the positions whose annotation value flags r, and
\* repr_genic_region_to_var_cnt[r] the same sum under the representative rule.
C1_AggregatesMatchRescan ==
    \A s \in Slots :
        Sound(s) =>
            /\ peaks[s].genic_region_to_var_cnt = RescanRaw(peaks[s])
            /\ peaks[s].repr_genic_region_to_var_cnt = RescanRepr(peaks[s])

\* C1 witness: a combine has added another peak's counts onto a position the
\* receiver had, and one position of the receiver is multi
C1_Witness ==
    /\ last.op = "combine" /\ last.ok /\ last.self # last.other
    /\ \E pos \in Positions(peaks[last.self]) :
          /\ pos \in Positions(peaks[last.other])
          /\ peaks[last.self].var_pos_to_cnt[pos] >= 2
    /\ \E pos \in Positions(peaks[last.self]) :
          get_repr_anno(peaks[last.self].var_pos_to_anno_val[pos])[1]

\* C2: In every state the three per-position maps of a peak have the same key
\* set, and every key lies in [start, end) of the peak.
C2_MapsShareKeysInRange ==
    \A s \in Slots :
        /\ DOMAIN peaks[s].var_pos_to_anno_val = DOMAIN peaks[s].var_pos_to_cnt
        /\ DOMAIN peaks[s].var_pos_to_genes = DOMAIN peaks[s].var_pos_to_cnt
        /\ \A pos \in DOMAIN peaks[s].var_pos_to_cnt :
              peaks[s].start <= pos /\ pos < peaks[s].end

\* C2 witness: cut has returned a peak over a part of its source that holds
\* one of the two positions the source records
C2_Witness ==
    /\ last.op = "cut" /\ last.ok
    /\ Cardinality(Positions(peaks[last.self])) = 2
    /\ Cardinality(Positions(peaks[last.other])) = 1
    /\ get_size(peaks[last.other]) < get_size(peaks[last.self])

\* C3: A successful self.combine(other) leaves self with the union of the two
\* prior position sets; the count of every position is self's prior count plus
\* other's prior count (0 where absent); the annotation value and genes of the
\* positions self had are unchanged; and when other is self every count is
\* doubled.
C3_CombineAddsCounts ==
    [][ (last'.op = "combine" /\ last'.ok) =>
          LET pre == peaks[last'.self]
              oth == peaks[last'.other]
              post == peaks'[last'.self]
          IN  /\ Positions(post) = Positions(pre) \cup Positions(oth)
              /\ \A pos \in Positions(post) :
                    post.var_pos_to_cnt[pos] = CntAt(pre, pos) + CntAt(oth, pos)
              /\ \A pos \in Positions(pre) :
                    /\ post.var_pos_to_anno_val[pos] = pre.var_pos_to_anno_val[pos]
                    /\ post.var_pos_to_genes[pos] = pre.var_pos_to_genes[pos]
              /\ last'.self = last'.other =>
                    \A pos \in Positions(pre) :
                        post.var_pos_to_cnt[pos] = 2 * pre.var_pos_to_cnt[pos]
      ]_vars

\* C3 witness: a peak has been combined with itself and holds a doubled count
C3_Witness ==
    /\ last.op = "combine" /\ last.ok /\ last.self = last.other
    /\ \E pos \in Positions(peaks[last.self]) :
          peaks[last.self].var_pos_to_cnt[pos] >= 2

\* C4: The peak new = peak.cut(a, b) records exactly the positions p of peak
\* with a <= p < b, each with the count, annotation value and genes peak has.
C4_CutRestricts ==
    (last.op = "cut" /\ last.ok) =>
        LET src == peaks[last.self]
            new == peaks[last.other]
            inside == {pos \in Positions(src) : last.a <= pos /\ pos < last.b}
        IN  /\ DOMAIN new.var_pos_to_cnt = inside
            /\ DOMAIN new.var_pos_to_anno_val = inside
            /\ DOMAIN new.var_pos_to_genes = inside
            /\ \A pos \in inside :
                  /\ new.var_pos_to_cnt[pos] = src.var_pos_to_cnt[pos]
                  /\ new.var_pos_to_anno_val[pos] = src.var_pos_to_anno_val[pos]
                  /\ new.var_pos_to_genes[pos].val = src.var_pos_to_genes[pos].val

\* C4 witness: the source records a position below the cut and one inside it,
\* the one inside recorded first
C4_Witness ==
    /\ last.op = "cut" /\ last.ok
    /\ Len(peaks[last.self].var_pos_order) = 2
    /\ peaks[last.self].var_pos_order[1] > peaks[last.self].var_pos_order[2]
    /\ Positions(peaks[last.other]) = {peaks[last.self].var_pos_order[2]}

\* C5: For a peak annotated by one gene_based_annotation call, with variants
\* recorded by successful calls, cut(peak.start, peak.end) returns a peak with
\* the same anno_vals, size tables, per-position maps and variant-count tables.
C5_FullCutReproduces ==
    (/\ last.op = "cut" /\ last.ok
     /\ last.a = peaks[last.self].start /\ last.b = peaks[last.self].end
     /\ anno_calls[last.self] = 1) =>
        LET src == peaks[last.self]
            new == peaks[last.other]
        IN  /\ new.anno_vals = src.anno_vals
            /\ new.genic_region_to_size = src.genic_region_to_size
            /\ new.repr_genic_region_to_size = src.repr_genic_region_to_size
            /\ new.var_pos_to_cnt = src.var_pos_to_cnt
            /\ new.var_pos_to_anno_val = src.var_pos_to_anno_val
            /\ GenesByValue(new) = GenesByValue(src)
            /\ new.genic_region_to_var_cnt = src.genic_region_to_var_cnt
            /\ new.repr_genic_region_to_var_cnt = src.repr_genic_region_to_var_cnt

\* C5 witness: a peak that records a count of 2 at a position has been cut
\* over its whole interval
C5_Witness ==
    /\ last.op = "cut" /\ last.ok
    /\ last.a = peaks[last.self].start /\ last.b = peaks[last.self].end
    /\ anno_calls[last.self] = 1
    /\ \E pos \in Positions(peaks[last.self]) : peaks[last.self].var_pos_to_cnt[pos] = 2

\* C6: After new = peak.cut(a, b), and after self.combine(other) with other
\* distinct from self, the two peaks share no mutable container, the gene
\* mappings held as values of var_pos_to_genes included.
C6_NoSharedGeneMapping ==
    (last.op \in {"cut", "combine"} /\ last.ok /\ last.self # last.other) =>
        GeneIds(peaks[last.self]) \cap GeneIds(peaks[last.other]) = {}

\* the size tables by a fresh scan of anno_vals
ScanRawSize(anno_vals) ==
    [r \in GenicRegions |->
        Cardinality({i \in 1..Len(anno_vals) : parse_anno_val(anno_vals[i])[r]})]

ScanReprSize(anno_vals) ==
    [r \in GenicRegions |->
        Cardinality({i \in 1..Len(anno_vals) : ReprCredits(anno_vals[i], r)})]

\* C7: For every peak with populated anno_vals, reached by any calls the code
\* accepts, genic_region_to_size and repr_genic_region_to_size equal the tables
\* of a fresh full scan of anno_vals.
C7_SizesMatchScan ==
    \A s \in Slots :
        peaks[s].anno_vals # <<>> =>
            /\ peaks[s].genic_region_to_size = ScanRawSize(peaks[s].anno_vals)
            /\ peaks[s].repr_genic_region_to_size = ScanReprSize(peaks[s].anno_vals)

\* C8: A successful put_variant at a position whose recorded annotation is
\* multi adds 1 to the representative buckets 5UTR and 3UTR and leaves the
\* others; at any other position it adds 1 to the bucket of the position's
\* representative region and leaves the others.
C8_ReprDualCount ==
    [][ (last'.op = "put_variant" /\ last'.ok) =>
          LET pre == peaks[last'.self].repr_genic_region_to_var_cnt
              post == peaks'[last'.self].repr_genic_region_to_var_cnt
              repr == get_repr_anno(peaks'[last'.self].var_pos_to_anno_val[last'.a])
          IN  \A r \in GenicRegions :
                post[r] - pre[r] =
                    IF repr[1]
                    THEN (IF r \in {"5UTR", "3UTR"} THEN 1 ELSE 0)
                    ELSE (IF r = repr[2] THEN 1 ELSE 0)
      ]_vars

\* C8 witness: a variant has been put at a position recorded as multi
C8_Witness ==
    /\ last.op = "put_variant" /\ last.ok
    /\ get_repr_anno(peaks[last.self].var_pos_to_anno_val[last.a])[1]
    /\ peaks[last.self].repr_genic_region_to_var_cnt["3UTR"] >= 1

\* C9: In every state of a peak with populated anno_vals reached by successful
\* calls, every recorded position p has var_pos_to_anno_val[p] =
\* anno_vals[p - start].
C9_VariantAnnoMatchesVector ==
    \A s \in Slots :
        (Sound(s) /\ peaks[s].anno_vals # <<>>) =>
            \A pos \in DOMAIN peaks[s].var_pos_to_anno_val :
                peaks[s].var_pos_to_anno_val[pos]
                    = peaks[s].anno_vals[pos - peaks[s].start + 1]

\* C10: cut(start, end) raises whenever self.start <= start < end <= self.end
\* does not hold; no peak is returned and the source peak is unchanged.
C10_CutRejectsBadInterval ==
    [][ (/\ last'.op = "cut"
         /\ ~(/\ peaks[last'.self].start <= last'.a
              /\ last'.a < last'.b
              /\ last'.b <= peaks[last'.self].end)) =>
          (~last'.ok /\ peaks' = peaks)
      ]_vars

\* C10 witness: a cut with start = end has raised
C10_Witness ==
    /\ last.op = "cut" /\ ~last.ok
    /\ last.a = last.b

\* C11: combine(other) raises when other is not over the identical interval
\* and strand as self, an overlap not being enough, and self is then unchanged.
C11_CombineRejectsOtherInterval ==
    [][ (/\ last'.op = "combine"
         /\ ~PeakEq(peaks[last'.self], peaks[last'.other])) =>
          (~last'.ok /\ peaks' = peaks)
      ]_vars

\* C11 witness: a combine with a peak over a part of self's interval, on the
\* same strand, has raised
C11_Witness ==
    /\ last.op = "combine" /\ ~last.ok
    /\ peaks[last.self].strand = peaks[last.other].strand
    /\ peaks[last.self].start = peaks[last.other].start
    /\ peaks[last.other].end < peaks[last.self].end
    /\ Positions(peaks[last.other]) # {}

\* C12: cut leaves every field of the source peak unchanged, and combine with
\* another peak leaves every field of that other peak unchanged.
C12_SourceAndOtherUnchanged ==
    [][ /\ last'.op = "cut" => peaks'[last'.self] = peaks[last'.self]
        /\ (last'.op = "combine" /\ last'.self # last'.other) =>
                peaks'[last'.other] = peaks[last'.other]
      ]_vars

\* C12 witness: cut has returned a part of a peak that records variants
C12_Witness ==
    /\ last.op = "cut" /\ last.ok
    /\ Positions(peaks[last.self]) # {}
    /\ get_size(peaks[last.other]) < get_size(peaks[last.self])
    /\ peaks[last.other] # peaks[last.self]

\* the raw counts the positions keys of a peak give to the regions
RawOf(peak, keys) ==
    SumOver([pos \in keys |->
                LET anno_dict == parse_anno_val(peak.var_pos_to_anno_val[pos])
                IN  [r \in GenicRegions |->
                        IF anno_dict[r] THEN peak.var_pos_to_cnt[pos] ELSE 0]],
            keys)

\* the representative counts the positions keys of a peak give to the regions
ReprOf(peak, keys) ==
    SumOver([pos \in keys |->
                LET repr == get_repr_anno(peak.var_pos_to_anno_val[pos])
                IN  [r \in GenicRegions |->
                        IF (IF repr[1] THEN r \in {"5UTR", "3UTR"} ELSE r = repr[2])
                        THEN peak.var_pos_to_cnt[pos] ELSE 0]],
            keys)

\* the sum of two tables
TablePlus(t, u) == [r \in GenicRegions |-> t[r] + u[r]]

\* C16 as stated: a successful combine increments the region tables of self,
\* by other's count, only for the positions that were absent in self; for a
\* position self already has it only adds other's count onto self's count.
C16_KnownPositionsLeaveTables ==
    [][ (last'.op = "combine" /\ last'.ok) =>
          LET pre == peaks[last'.self]
              oth == peaks[last'.other]
              post == peaks'[last'.self]
              absent == Positions(oth) \ Positions(pre)
          IN  /\ post.genic_region_to_var_cnt
                    = TablePlus(pre.genic_region_to_var_cnt, RawOf(oth, absent))
              /\ post.repr_genic_region_to_var_cnt
                    = TablePlus(pre.repr_genic_region_to_var_cnt, ReprOf(oth, absent))
      ]_vars

\* C16 amended: a successful combine increments the region tables of self, by
\* other's count, for every position of other, the positions self already has
\* included, and adds other's count onto self's count for those.
C16_AllPositionsAddToTables ==
    [][ (last'.op = "combine" /\ last'.ok) =>
          LET pre == peaks[last'.self]
              oth == peaks[last'.other]
              post == peaks'[last'.self]
          IN  /\ post.genic_region_to_var_cnt
                    = TablePlus(pre.genic_region_to_var_cnt,
                                RawOf(oth, Positions(oth)))
              /\ post.repr_genic_region_to_var_cnt
                    = TablePlus(pre.repr_genic_region_to_var_cnt,
                                ReprOf(oth, Positions(oth)))
              /\ \A pos \in Positions(oth) \cap Positions(pre) :
                    post.var_pos_to_cnt[pos]
                        = pre.var_pos_to_cnt[pos] + oth.var_pos_to_cnt[pos]
      ]_vars

\* C16 witness: a combine with another peak has met a position self already
\* had, and the raw table of self counts both peaks' variants there
C16_Witness ==
    /\ last.op = "combine" /\ last.ok /\ last.self # last.other
    /\ \E pos \in Positions(peaks[last.self]) \cap Positions(peaks[last.other]) :
          /\ peaks[last.self].var_pos_to_cnt[pos]
                > peaks[last.other].var_pos_to_cnt[pos]
          /\ \E r \in GenicRegions :
                peaks[last.self].genic_region_to_var_cnt[r]
                    > peaks[last.other].genic_region_to_var_cnt[r]

\* C17: put_variant at a position already recorded, with an annotation value
\* or genes that differ from the recorded ones, raises; the recorded
\* annotation value and genes are kept and both variant-count tables are
\* unchanged, but the count of the position has been incremented.
C17_MismatchKeepsLabelsNotCount ==
    [][ (/\ last'.op = "put_variant"
         /\ last'.a \in Positions(peaks[last'.self])
         /\ \/ peaks[last'.self].var_pos_to_anno_val[last'.a] # last'.b[1]
            \/ peaks[last'.self].var_pos_to_genes[last'.a].val # last'.b[2]) =>
          LET pre == peaks[last'.self]
              post == peaks'[last'.self]
          IN  /\ ~last'.ok
              /\ post.var_pos_to_anno_val = pre.var_pos_to_anno_val
              /\ post.var_pos_to_genes = pre.var_pos_to_genes
              /\ post.genic_region_to_var_cnt = pre.genic_region_to_var_cnt
              /\ post.repr_genic_region_to_var_cnt = pre.repr_genic_region_to_var_cnt
              /\ post.var_pos_to_cnt =
                    [pre.var_pos_to_cnt EXCEPT ![last'.a] = @ + 1]
      ]_vars

\* C17 witness: a put_variant with the recorded annotation value but other
\* genes has raised, and the count of its position exceeds what the tables hold
C17_Witness ==
    /\ last.op = "put_variant" /\ ~last.ok
    /\ last.a \in Positions(peaks[last.self])
    /\ peaks[last.self].var_pos_to_anno_val[last.a] = last.b[1]
    /\ peaks[last.self].var_pos_to_genes[last.a].val # last.b[2]
    /\ peaks[last.self].var_pos_to_cnt[last.a] = 2
    /\ peaks[last.self].genic_region_to_var_cnt # RescanRaw(peaks[last.self])

\* the sum of a table over all regions
TableTotal(table) ==
    table["ORF"] + table["5UTR"] + table["3UTR"] + table["ncRNA_exonic"]
        + table["intronic"] + table["ncRNA_intronic"] + table["intergenic"]

\* the nucleotides of an annotation vector whose representative
\* classification is multi
MultiNucleotides(anno_vals) ==
    {i \in 1..Len(anno_vals) : get_repr_anno(anno_vals[i])[1]}

\* C18: After gene_based_annotation on a fresh peak, the sum of
\* repr_genic_region_to_size over all regions is end - start plus the number of
\* multi nucleotides; it is the peak length exactly when no nucleotide is multi.
C18_ReprSizeTotal ==
    \A s \in Slots :
        anno_calls[s] = 1 =>
            LET total == TableTotal(peaks[s].repr_genic_region_to_size)
                multi == MultiNucleotides(peaks[s].anno_vals)
            IN  /\ total = get_size(peaks[s]) + Cardinality(multi)
                /\ (total = get_size(peaks[s])) <=> (multi = {})

\* C18 witness: a fresh peak has been annotated with a vector that has a multi
\* nucleotide and one that is not
C18_Witness ==
    /\ last.op = "gene_based_annotation" /\ last.ok
    /\ anno_calls[last.self] = 1
    /\ MultiNucleotides(peaks[last.self].anno_vals) # {}
    /\ Cardinality(MultiNucleotides(peaks[last.self].anno_vals))
          < Len(peaks[last.self].anno_vals)

\* C19: cut is additive over a partition.  When peak.cut(a, b) succeeds, then
\* for every m with a < m < b the cuts peak.cut(a, m) and peak.cut(m, b) of the
\* same peak succeed too, and their size tables and variant-count tables, raw
\* and representative, sum to those of the peak returned; their positions are
\* disjoint with the positions of the peak returned as their union; and
\* get_var_cnt adds likewise.
C19_CutAdditive ==
    [][ (last'.op = "cut" /\ last'.ok) =>
          LET source == peaks[last'.self]
              whole == peaks'[last'.other]
          IN  \A m \in (last'.a + 1)..(last'.b - 1) :
                LET left == cut(source, last'.a, m)
                    right == cut(source, m, last'.b)
                IN  /\ left.ok /\ right.ok
                    /\ TablePlus(left.peak.genic_region_to_size,
                                 right.peak.genic_region_to_size)
                          = whole.genic_region_to_size
                    /\ TablePlus(left.peak.repr_genic_region_to_size,
                                 right.peak.repr_genic_region_to_size)
                          = whole.repr_genic_region_to_size
                    /\ TablePlus(left.peak.genic_region_to_var_cnt,
                                 right.peak.genic_region_to_var_cnt)
                          = whole.genic_region_to_var_cnt
                    /\ TablePlus(left.peak.repr_genic_region_to_var_cnt,
                                 right.peak.repr_genic_region_to_var_cnt)
                          = whole.repr_genic_region_to_var_cnt
                    /\ Positions(left.peak) \cap Positions(right.peak) = {}
                    /\ Positions(left.peak) \cup Positions(right.peak)
                          = Positions(whole)
                    /\ get_var_cnt(left.peak) + get_var_cnt(right.peak)
                          = get_var_cnt(whole)
      ]_vars

\* C19 witness: cut has returned an interval of two nucleotides or more that
\* holds variants on both sides of a point m inside it
C19_Witness ==
    /\ last.op = "cut" /\ last.ok
    /\ \E m \in (last.a + 1)..(last.b - 1) :
          /\ \E pos \in Positions(peaks[last.other]) : pos < m
          /\ \E pos \in Positions(peaks[last.other]) : pos >= m
    /\ get_var_cnt(peaks[last.other]) >= 2

\* the positions both peaks record
SharedPositions(a, b) == Positions(a) \cap Positions(b)

\* the annotation value and the genes of the two peaks agree on every shared
\* position
LabelsAgree(a, b) ==
    \A pos \in SharedPositions(a, b) :
        /\ a.var_pos_to_anno_val[pos] = b.var_pos_to_anno_val[pos]
        /\ a.var_pos_to_genes[pos].val = b.var_pos_to_genes[pos].val

\* C20: For the two distinct peaks, over the same interval and strand, left
\* whole by every call so far, and agreeing in annotation value and genes on
\* every shared position, A.combine(B) and B.combine(A) from the same A and B
\* both succeed and leave their receivers with equal var_pos_to_cnt,
\* var_pos_to_anno_val, var_pos_to_genes (compared by value),
\* genic_region_to_var_cnt and repr_genic_region_to_var_cnt.
C20_CombineCommutes ==
    (/\ last.ok
     /\ PeakEq(peaks["p"], peaks["q"])
     /\ LabelsAgree(peaks["p"], peaks["q"])) =>
        LET ab == combine(peaks["p"], peaks["q"], FALSE)
            ba == combine(peaks["q"], peaks["p"], FALSE)
        IN  /\ ab.ok /\ ba.ok
            /\ ab.peak.var_pos_to_cnt = ba.peak.var_pos_to_cnt
            /\ ab.peak.var_pos_to_anno_val = ba.peak.var_pos_to_anno_val
            /\ GenesByValue(ab.peak) = GenesByValue(ba.peak)
            /\ ab.peak.genic_region_to_var_cnt = ba.peak.genic_region_to_var_cnt
            /\ ab.peak.repr_genic_region_to_var_cnt
                  = ba.peak.repr_genic_region_to_var_cnt

\* C20 witness: the two peaks record different variant maps that share a
\* position, with agreeing labels, and combining them in the two directions
\* visits that position in both
C20_Witness ==
    /\ last.ok
    /\ PeakEq(peaks["p"], peaks["q"])
    /\ LabelsAgree(peaks["p"], peaks["q"])
    /\ SharedPositions(peaks["p"], peaks["q"]) # {}
    /\ peaks["p"].var_pos_to_cnt # peaks["q"].var_pos_to_cnt
    /\ combine(peaks["p"], peaks["q"], FALSE).ok
    /\ combine(peaks["q"], peaks["p"], FALSE).ok
    /\ combine(peaks["p"], peaks["q"], FALSE).peak.var_pos_order
          # combine(peaks["q"], peaks["p"], FALSE).peak.var_pos_order

\* whether a sequence of positions is strictly increasing
StrictlyIncreasing(seq) == \A i \in 1..(Len(seq) - 1) : seq[i] < seq[i + 1]

\* C13 as stated: A successful put_variant sets the count of its position to 1
\* when the position was absent and raises it by 1 otherwise, the other counts
\* kept; so on a peak only put_variant has populated, get_var_cnt() is the
\* number of successful put_variant calls, and get_var_pos_list() is exactly
\* the recorded positions in strictly increasing order, none twice.  It fails
\* on the peak a put_variant that raised on the labels has left behind.
C13_PutVariantCounts ==
    [][ /\ (last'.op = "put_variant" /\ last'.ok) =>
              LET pre == peaks[last'.self]
                  post == peaks'[last'.self]
                  pos == last'.a
              IN  /\ Positions(post) = Positions(pre) \cup {pos}
                  /\ post.var_pos_to_cnt[pos]
                        = IF pos \in Positions(pre)
                          THEN pre.var_pos_to_cnt[pos] + 1 ELSE 1
                  /\ \A other \in Positions(pre) \ {pos} :
                        post.var_pos_to_cnt[other] = pre.var_pos_to_cnt[other]
        /\ \A s \in Slots :
              put_calls'[s] >= 0 =>
                  LET list == get_var_pos_list(peaks'[s])
                  IN  /\ get_var_cnt(peaks'[s]) = put_calls'[s]
                      /\ StrictlyIncreasing(list)
                      /\ {list[i] : i \in 1..Len(list)} = Positions(peaks'[s])
                      /\ Len(list) = Cardinality(Positions(peaks'[s]))
      ]_vars

\* the put_variant calls on the peak of s that raised after counting: the last
\* call, when it is a put_variant on s, inside the peak, that raised (a call
\* that raises ends the run, so there is at most this one)
RaisedAfterCounting(call, peak, s) ==
    IF /\ call.op = "put_variant" /\ ~call.ok /\ call.self = s
       /\ peak.start <= call.a /\ call.a < peak.end
    THEN 1 ELSE 0

\* C13, amended: Every put_variant whose position is inside the peak, the one
\* that then raises on the annotation value or the genes included, sets the
\* count of its position to 1 when the position was absent and raises it by 1
\* otherwise, the other counts kept; a put_variant outside the peak raises with
\* the peak as it was.  So on a peak only put_variant has populated,
\* get_var_cnt() is the number of successful put_variant calls plus the number
\* of calls that raised on the labels, and get_var_pos_list() is exactly the
\* recorded positions in strictly increasing order, none twice.
C13_CountedCallsCount ==
    [][ /\ last'.op = "put_variant" =>
              LET pre == peaks[last'.self]
                  post == peaks'[last'.self]
                  pos == last'.a
              IN  IF pre.start <= pos /\ pos < pre.end
                  THEN /\ Positions(post) = Positions(pre) \cup {pos}
                       /\ post.var_pos_to_cnt[pos]
                             = IF pos \in Positions(pre)
                               THEN pre.var_pos_to_cnt[pos] + 1 ELSE 1
                       /\ \A other \in Positions(pre) \ {pos} :
                             post.var_pos_to_cnt[other] = pre.var_pos_to_cnt[other]
                  ELSE ~last'.ok /\ post = pre
        /\ \A s \in Slots :
              put_calls'[s] >= 0 =>
                  LET list == get_var_pos_list(peaks'[s])
                  IN  /\ get_var_cnt(peaks'[s])
                            = put_calls'[s]
                              + RaisedAfterCounting(last', peaks'[s], s)
                      /\ StrictlyIncreasing(list)
                      /\ {list[i] : i \in 1..Len(list)} = Positions(peaks'[s])
                      /\ Len(list) = Cardinality(Positions(peaks'[s]))
      ]_vars

\* C13 witness: after successful put_variant calls on a peak, at a lower
\* position after a higher one, a put_variant at a recorded position has
\* raised on its labels, and get_var_cnt() is one more than the successes
C13_Witness ==
    /\ last.op = "put_variant" /\ ~last.ok
    /\ last.a \in Positions(peaks[last.self])
    /\ put_calls[last.self] >= 2
    /\ get_var_cnt(peaks[last.self]) = put_calls[last.self] + 1
    /\ peaks[last.self].var_pos_order # get_var_pos_list(peaks[last.self])

\* whether the i-th of the 6 bits of a code below 64, the first the most
\* significant, is set: the code, less its higher bits, reaches the weight
\* 2^(6 - i) of the bit
BitIsSet(code, i) == code % (2 * 2^(6 - i)) >= 2^(6 - i)

\* C14: NarrowPeak.set_genic_region_size raises exactly when the list holds a
\* code >= 64; for a list of codes in 0..63 the resulting genic_region_to_size
\* counts under intergenic the codes equal to 0, and under region i (1 ORF,
\* 2 5UTR, 3 3UTR, 4 ncRNA_exonic, 5 intronic, 6 ncRNA_intronic) the non-zero
\* codes whose i-th bit, from the most significant of 6, is set.
C14_SizeCountsBits ==
    narrow_last.op = "set_genic_region_size" =>
        LET list == narrow_last.list
            size == narrow.genic_region_to_size
        IN  /\ narrow_last.ok <=> (\A k \in 1..Len(list) : list[k] < 64)
            /\ narrow_last.ok =>
                  /\ size["intergenic"]
                        = Cardinality({k \in 1..Len(list) : list[k] = 0})
                  /\ \A i \in 1..6 :
                        size[bit_pos_to_region[i]]
                           = Cardinality({k \in 1..Len(list) :
                                 list[k] # 0 /\ BitIsSet(list[k], i)})

\* C14 witness: the list <<34, 0>> has been counted, 34 under ORF and
\* intronic and 0 under intergenic
C14_Witness ==
    /\ narrow_last.op = "set_genic_region_size" /\ narrow_last.ok
    /\ narrow_last.list = <<34, 0>>
    /\ narrow.genic_region_to_size["ORF"] = 1
    /\ narrow.genic_region_to_size["intronic"] = 1
    /\ narrow.genic_region_to_size["intergenic"] = 1

\* C15: NarrowPeak.put_variant of a variant at the 1-based position q succeeds
\* exactly when q - 1 is inside [start, end) and no other region is recorded
\* there; a success records the variant under the key q - 1; a q - 1 outside
\* the interval raises with no map changed; and a region that differs from the
\* recorded one raises with var_pos_to_genic_region as it was.
C15_RecordsZeroBased ==
    [][ narrow_last'.op = "put_variant" =>
          LET key == narrow_last'.pos - 1
              region == narrow_last'.region
              inside == narrow.start <= key /\ key < narrow.end
              seen == key \in DOMAIN narrow.var_pos_to_genic_region
              differs == seen /\ narrow.var_pos_to_genic_region[key] # region
          IN  /\ narrow_last'.ok <=> (inside /\ ~differs)
              /\ ~inside => narrow' = narrow
              /\ (inside /\ differs) =>
                    narrow'.var_pos_to_genic_region = narrow.var_pos_to_genic_region
              /\ narrow_last'.ok =>
                    /\ DOMAIN narrow'.var_pos_to_cnt
                          = DOMAIN narrow.var_pos_to_cnt \cup {key}
                    /\ narrow'.var_pos_to_cnt[key]
                          = IF key \in DOMAIN narrow.var_pos_to_cnt
                            THEN narrow.var_pos_to_cnt[key] + 1 ELSE 1
                    /\ \A k \in DOMAIN narrow.var_pos_to_cnt \ {key} :
                          narrow'.var_pos_to_cnt[k] = narrow.var_pos_to_cnt[k]
                    /\ narrow'.var_pos_to_genic_region
                          = DictSet(narrow.var_pos_to_genic_region, key, region)
      ]_vars

\* C15 witness: a variant at a recorded position of a peak that starts past 0
\* has been refused for naming another region, and the recorded one stands
C15_Witness ==
    /\ narrow_last.op = "put_variant" /\ ~narrow_last.ok
    /\ narrow.start > 0
    /\ narrow.start <= narrow_last.pos - 1 /\ narrow_last.pos - 1 < narrow.end
    /\ (narrow_last.pos - 1) \in DOMAIN narrow.var_pos_to_genic_region
    /\ narrow.var_pos_to_genic_region[narrow_last.pos - 1] # narrow_last.region

====
